---- MODULE Spec2Model ----
(***************************************************************************)
(* Model of tassaudio.js: a one-shot generator of a 4- or 6-channel WAV    *)
(* file carrying the coordinated-reset pattern, plus its CSV log.          *)
(*                                                                         *)
(* Representation.  A channel array aOut[f] is kept run-length encoded: a  *)
(* sequence of runs <<kind, count>>, always coalesced, where kind is       *)
(*   "U"  an array hole (never written; reads as undefined),               *)
(*   "Z"  samples of value 0 (addSilence),                                 *)
(*   "T"  samples of the 0.1 s tone table (addTone),                       *)
(*   "I"  samples of the intro tone table (makeIntro).                     *)
(* Times are kept exact: t is counted in thirds of a second (tCR = 2/3 s), *)
(* jitter as tenths of a percent, sample counts as integers.  For the      *)
(* durations and sample rates enumerated below the exact values agree with *)
(* the values the program computes in double precision.                    *)
(***************************************************************************)
EXTENDS Integers, Sequences, FiniteSets, TLC

VARIABLES opts, pc, rnd, aOut, aOutptr, totSamples,
          t, cycle, bar, i, n, seqnum, tStart,
          fd, fdLog, wav, log,
          firstRun

vars == <<opts, pc, rnd, aOut, aOutptr, totSamples,
          t, cycle, bar, i, n, seqnum, tStart, fd, fdLog, wav, log,
          firstRun>>

----------------------------------------------------------------------------
(* Bounds of the model *)

\* number of states of the random-number source
RandMod == 24

\* longest --duration of a run, in seconds
MaxDuration == 4

----------------------------------------------------------------------------
(* Command line options after parseInt / parseFloat *)

NaN == [nan |-> TRUE, v |-> 0]

Num(x) == [nan |-> FALSE, v |-> x]

isNaN(x) == x.nan

SampleFrequencyOpts == {NaN, Num(999), Num(1000), Num(1005), Num(44100), Num(44101)}

\* --jitter in tenths of a percent: 235 is "23.5"
JitterOpts == {NaN, Num(-1), Num(0), Num(235), Num(236)}

IntroOpts == {NaN, Num(-1), Num(0), Num(30), Num(31)}

DurationOpts == {NaN, Num(0), Num(1), Num(MaxDuration), Num(14401)}

MaxAmplitudeOpts == {NaN, Num(0), Num(32760), Num(32768)}

----------------------------------------------------------------------------
(* Option validation, lines 53-95 *)

BadSampleFrequency(o) ==
    isNaN(o.sampleFrequency) \/ o.sampleFrequency.v < 1000 \/ o.sampleFrequency.v > 44100

BadJitter(o) ==
    isNaN(o.jitter) \/ o.jitter.v < 0 \/ o.jitter.v > 235

\* variant: the upper bound of --intro is not checked
BadIntroNoMax(o) ==
    isNaN(o.intro) \/ o.intro.v < 0

BadIntro(o) ==
    isNaN(o.intro) \/ o.intro.v < 0 \/ o.intro.v > 30

BadDuration(o) ==
    isNaN(o.duration) \/ o.duration.v < 1 \/ o.duration.v > 14400

BadAmplitude(o) ==
    isNaN(o.maxAmplitude) \/ o.maxAmplitude.v < 1 \/ o.maxAmplitude.v > 32767

\* program.help() prints the usage and exits the process
HelpExits(o) ==
    BadSampleFrequency(o) \/ BadJitter(o) \/ BadIntro(o) \/ BadDuration(o) \/ BadAmplitude(o)

----------------------------------------------------------------------------
(* Configuration and algorithm parameters, lines 53-127 *)

sampleFrequency == opts.sampleFrequency.v

jitterPct == opts.jitter.v

intro == opts.intro.v

targetDuration == opts.duration.v

useSideChannels == opts.useSideChannels

sixChan == opts.sixchan

nBlocksON == 3

nBlocksOFF == 2

nFingers == IF sixChan THEN 6 ELSE 4

\* tCR = 1/fCR = 2/3 s, in thirds of a second
tCR == 2

\* number of per-channel arrays: nFingers+(sixChan?2:0)
nArrays == nFingers + (IF sixChan THEN 2 ELSE 0)

\* new Array(100000)
ArrayLen == 100000

\* new ArrayBuffer(20000000)
OutbufBytes == 20000000

\* ceil(a/b) for b > 0: the trip count of for(i=0; i<a/b; i++)
Ceil(a, b) == IF a <= 0 THEN 0 ELSE (a + b - 1) \div b

\* tone.length = tTone * sampleFrequency; new Array() throws a RangeError
\* unless that product is an integer
ToneArrayOk == sampleFrequency % 10 = 0

toneLength == sampleFrequency \div 10

\* addSilence(f, tTone): 0.1 * sampleFrequency samples
tToneSamples == Ceil(sampleFrequency, 10)

\* addSilence(f, tCR): (2/3) * sampleFrequency samples
tCRSamples == Ceil(2 * sampleFrequency, 3)

\* intTone.length and addSilence(f, intro)
introSamples == intro * sampleFrequency

\* sequences[seqnum], the 24 orders of the 4 fingers
sequences ==
    << <<1,2,3,4>>, <<1,2,4,3>>, <<1,3,2,4>>, <<1,3,4,2>>,
       <<1,4,2,3>>, <<1,4,3,2>>, <<2,1,3,4>>, <<2,1,4,3>>,
       <<2,3,1,4>>, <<2,3,4,1>>, <<2,4,1,3>>, <<2,4,3,1>>,
       <<3,1,2,4>>, <<3,1,4,2>>, <<3,2,1,4>>, <<3,2,4,1>>,
       <<3,4,1,2>>, <<3,4,2,1>>, <<4,1,2,3>>, <<4,1,3,2>>,
       <<4,2,1,3>>, <<4,2,3,1>>, <<4,3,1,2>>, <<4,3,2,1>> >>

\* nPhrases = Math.round(targetDuration / (tCR * 5)) = round(3T/10)
nPhrases == (3 * targetDuration + 5) \div 10

----------------------------------------------------------------------------
(* Math.random(): a generator with RandMod states; the value drawn in      *)
(* state r is r/RandMod, in [0,1)                                          *)

NextRnd(r) == (13 * r + 7) % RandMod

\* Math.floor(Math.random()*24)
DrawSeqnum(r) == (r * 24) \div RandMod

\* samples of addSilence(f, gap), gap = tCR4 - tTone + jitter():
\* sf * (1/6 - 1/10 + (j/1000) * (1/6) * (r/RandMod - 1/2))
gapSamples(r) ==
    Ceil(sampleFrequency * (800 * RandMod + jitterPct * (2 * r - RandMod)),
         12000 * RandMod)

----------------------------------------------------------------------------
(* Run-length encoded arrays *)

Kinds == {"U", "Z", "T", "I"}

Runs == Seq(Kinds \X Nat)

\* number of samples
RunLenOf[a \in Runs] == IF a = <<>> THEN 0 ELSE a[1][2] + RunLenOf[Tail(a)]

RunLen(a) == RunLenOf[a]

\* the first k samples
TakeRuns[a \in Runs, k \in Int] ==
    IF k <= 0 \/ a = <<>> THEN <<>>
    ELSE IF a[1][2] <= k THEN <<a[1]>> \o TakeRuns[Tail(a), k - a[1][2]]
    ELSE << <<a[1][1], k>> >>

TakeS(a, k) == TakeRuns[a, k]

\* all but the first k samples
DropRuns[a \in Runs, k \in Int] ==
    IF a = <<>> THEN <<>>
    ELSE IF k <= 0 THEN a
    ELSE IF a[1][2] <= k THEN DropRuns[Tail(a), k - a[1][2]]
    ELSE << <<a[1][1], a[1][2] - k>> >> \o Tail(a)

DropS(a, k) == DropRuns[a, k]

\* the same samples with empty runs dropped and equal neighbours merged
CoalesceRuns[a \in Runs] ==
    IF a = <<>> THEN <<>>
    ELSE IF a[1][2] = 0 THEN CoalesceRuns[Tail(a)]
    ELSE IF Len(a) = 1 THEN a
    ELSE IF a[2][2] = 0 THEN CoalesceRuns[<<a[1]>> \o Tail(Tail(a))]
    ELSE IF a[1][1] = a[2][1]
         THEN CoalesceRuns[<< <<a[1][1], a[1][2] + a[2][2]>> >> \o Tail(Tail(a))]
    ELSE <<a[1]>> \o CoalesceRuns[Tail(a)]

Coalesce(a) == CoalesceRuns[a]

\* a[ptr], a[ptr+1], ... a[ptr+cnt-1] = kind
WriteRun(a, ptr, kind, cnt) ==
    Coalesce(TakeS(a, ptr) \o << <<kind, cnt>> >> \o DropS(a, ptr + cnt))

\* a[0..k-1]; indexes past the end of the array read as undefined
ReadS(a, k) ==
    Coalesce(TakeS(a, k) \o << <<"U", k - RunLen(TakeS(a, k))>> >>)

\* a[from..from+cnt-1]
Slice(a, from, cnt) == ReadS(DropS(a, from), cnt)

----------------------------------------------------------------------------
(* Channel output: addSample, addTone, addSilence, lines 207-227.  A       *)
(* channel is the pair of aOut[f] and aOutptr[f]; every write of the       *)
(* program goes to aOut[f] at aOutptr[f] of one channel f.                 *)

Channel(f) == [a |-> aOut[f], p |-> aOutptr[f]]

\* cnt successive calls of addSample(f, x) with samples of one kind: they
\* fill aOut[f] from aOutptr[f] on and advance aOutptr[f] by cnt.  (The
\* channel is bound once, so that nested calls evaluate it once.)
addSamples(ch, kind, cnt) ==
    CHOOSE r \in {[a |-> WriteRun(c.a, c.p, kind, cnt), p |-> c.p + cnt] : c \in {ch}} : TRUE

addTone(ch) == addSamples(ch, "T", toneLength)

addSilence(ch, nSamples) == addSamples(ch, "Z", nSamples)

\* line 226: if(f==0) totSamples++
totSamplesAfter(newptr) == totSamples + (newptr[0] - aOutptr[0])

----------------------------------------------------------------------------
(* flush(), lines 229-246 *)

Min(a, b) == IF a < b THEN a ELSE b

\* number of setInt16 calls that succeed: a call at offset succeeds iff
\* offset + 2 <= outdv.byteLength, and offset advances only on success
flushWritten(nSamples) == Min(nSamples * nFingers, OutbufBytes \div 2)

\* number of samples of channel f among the first w interleaved samples
channelWritten(w, f) == IF w <= f THEN 0 ELSE Ceil(w - f, nFingers)

\* setInt16 stores undefined as 0
Int16Runs[a \in Runs] ==
    IF a = <<>> THEN <<>>
    ELSE << <<IF a[1][1] = "U" THEN "Z" ELSE a[1][1], a[1][2]>> >> \o Int16Runs[Tail(a)]

toInt16(a) == Int16Runs[a]

\* the interleaved bytes of one flush, per channel, in frame order
flushData(nSamples) ==
    [f \in 0..(nFingers - 1) |->
        Coalesce(toInt16(TakeS(ReadS(aOut[f], nSamples),
                               channelWritten(flushWritten(nSamples), f))))]

\* for(f=0; f<nFingers; f++) aOutptr[f] = 0
flushReset(p) == [f \in DOMAIN p |-> IF f < nFingers THEN 0 ELSE p[f]]

----------------------------------------------------------------------------
(* WAV header, lines 360-444 *)

\* a | b
BitOrOf[a \in Nat, b \in Nat] ==
    IF a = 0 THEN b
    ELSE IF b = 0 THEN a
    ELSE (IF a % 2 = 1 \/ b % 2 = 1 THEN 1 ELSE 0) + 2 * BitOrOf[a \div 2, b \div 2]

BitOr(a, b) == BitOrOf[a, b]

SPEAKER_FRONT_LEFT == 1

SPEAKER_FRONT_RIGHT == 2

SPEAKER_FRONT_CENTER == 4

SPEAKER_LOW_FREQUENCY == 8

SPEAKER_BACK_LEFT == 16

SPEAKER_BACK_RIGHT == 32

SPEAKER_SIDE_LEFT == 512

SPEAKER_SIDE_RIGHT == 1024

WAVE_FORMAT_PCM == 1

WAVE_FORMAT_EXTENSIBLE == 65534

\* variant: the side and back speakers exchanged
channelMaskSwapped(side, six) ==
    LET m0 == BitOr(SPEAKER_FRONT_LEFT, SPEAKER_FRONT_RIGHT)
        m1 == IF side THEN BitOr(m0, BitOr(SPEAKER_BACK_LEFT, SPEAKER_BACK_RIGHT))
                      ELSE BitOr(m0, BitOr(SPEAKER_SIDE_LEFT, SPEAKER_SIDE_RIGHT))
    IN  IF six THEN BitOr(m1, BitOr(SPEAKER_LOW_FREQUENCY, SPEAKER_FRONT_CENTER))
               ELSE m1

channelMask(side, six) ==
    LET m0 == BitOr(SPEAKER_FRONT_LEFT, SPEAKER_FRONT_RIGHT)
        m1 == IF side THEN BitOr(m0, BitOr(SPEAKER_SIDE_LEFT, SPEAKER_SIDE_RIGHT))
                      ELSE BitOr(m0, BitOr(SPEAKER_BACK_LEFT, SPEAKER_BACK_RIGHT))
    IN  IF six THEN BitOr(m1, BitOr(SPEAKER_LOW_FREQUENCY, SPEAKER_FRONT_CENTER))
               ELSE m1

\* numFrames = sampleFrequency * duration, with
\* duration = intro*nFingers + tCR*(nBlocksOFF+nBlocksON)*nPhrases, as the
\* fraction numFrames3 / 3
numFrames3 ==
    sampleFrequency * (3 * intro * nFingers + tCR * (nBlocksOFF + nBlocksON) * nPhrases)

initWavHeader ==
    [numFrames3     |-> numFrames3,
     numChannels    |-> nFingers,
     sampleRate     |-> sampleFrequency,
     bytesPerSample |-> 2,
     use_extensible |-> TRUE,
     channelMask    |-> channelMask(useSideChannels, sixChan)]

\* dataSize = numFrames * blockAlign as setUint32 stores it (truncated)
dataSize(o) == (o.numFrames3 * o.numChannels * o.bytesPerSample) \div 3

\* the fields written, in order, as <<name, bytes, value>>
buildWaveHeader(o) ==
    LET blockAlign == o.numChannels * o.bytesPerSample
        byteRate   == o.sampleRate * blockAlign
    IN  << <<"RIFF", 4, "RIFF">>,
           <<"ChunkSize", 4, dataSize(o) + 36>>,
           <<"WAVE", 4, "WAVE">>,
           <<"fmt ", 4, "fmt ">>,
           <<"Subchunk1Size", 4, 40>>,
           <<"AudioFormat", 2, WAVE_FORMAT_EXTENSIBLE>>,
           <<"NumChannels", 2, o.numChannels>>,
           <<"SampleRate", 4, o.sampleRate>>,
           <<"ByteRate", 4, byteRate>>,
           <<"BlockAlign", 2, blockAlign>>,
           <<"BitsPerSample", 2, o.bytesPerSample * 8>>,
           <<"ExtraSize", 2, 22>>,
           <<"ValidBitsPerSample", 2, o.bytesPerSample * 8>>,
           <<"ChannelMask", 4, o.channelMask>>,
           <<"SubFormat", 2, WAVE_FORMAT_PCM>>,
           <<"SubFormatGUID", 14, "GUID">>,
           <<"data", 4, "data">>,
           <<"Subchunk2Size", 4, dataSize(o)>> >>

RECURSIVE headerBytes(_)
headerBytes(h) == IF h = <<>> THEN 0 ELSE h[1][2] + headerBytes(Tail(h))

headerField(h, name) == h[CHOOSE k \in 1..Len(h) : h[k][1] = name][3]

----------------------------------------------------------------------------
(* makeIntro, lines 254-270 *)

\* variant: every finger sounds in the first window
introSoundsFirst(c, f) == c = 0

\* line 260: the window in which finger f sounds
introSounds(c, f) == c = f

\* lines 259-267: the windows c, c+1, ... of finger f
RECURSIVE introWindows(_, _, _)
introWindows(ch, f, c) ==
    IF c >= nFingers THEN ch
    ELSE introWindows(IF introSounds(c, f)
                         THEN addSamples(ch, "I", introSamples)
                         ELSE addSilence(ch, introSamples),
                      f, c + 1)

\* line 258: for(f=0; f<nFingers; f++)
introFinger(f) == IF f < nFingers THEN introWindows(Channel(f), f, 0) ELSE Channel(f)

----------------------------------------------------------------------------
(* makePhrases, lines 272-331 *)

\* variant: the loop stops before the phrase that would pass targetDuration
loopExitEarly(tt) == tt + (nBlocksON + nBlocksOFF) * tCR > 3 * targetDuration

\* line 282
loopExit(tt) == tt > 3 * targetDuration

\* line 301: the centre and LFE channels of a 5.1 file
\* variant: the last two channels kept silent instead of centre and LFE
silentChannelRear(f) == sixChan /\ (f = 4 \/ f = 5)

silentChannel(f) == sixChan /\ (f = 2 \/ f = 3)

\* variant: the finger of the sequence taken as 0-based
noteSoundsZeroBased(lFinger, seq, k) == lFinger = seq[k + 1]

\* line 304
noteSounds(lFinger, seq, k) == (lFinger + 1) = seq[k + 1]

\* lines 298, 310: lFinger when the loop reaches channel f
RECURSIVE lFingerAt(_)
lFingerAt(f) ==
    IF f = 0 THEN 0
    ELSE lFingerAt(f - 1) + (IF silentChannel(f - 1) THEN 0 ELSE 1)

\* variant: centre and LFE carry fingers when the side channels are chosen
noteFingerSide(f, seq, k) ==
    IF silentChannel(f) /\ ~useSideChannels
    THEN addSilence(Channel(f), tToneSamples)
    ELSE IF noteSounds(lFingerAt(f), seq, k) THEN addTone(Channel(f))
    ELSE addSilence(Channel(f), tToneSamples)

\* lines 299-312: the note of slot k on channel f
noteFinger(f, seq, k) ==
    IF silentChannel(f) THEN addSilence(Channel(f), tToneSamples)
    ELSE IF noteSounds(lFingerAt(f), seq, k) THEN addTone(Channel(f))
    ELSE addSilence(Channel(f), tToneSamples)

\* lines 297-318: the note of slot k and the gap after it, on channel f
\* variant: the gap appended to the first four channels only
noteAndGapFront(f, seq, k, gap) ==
    IF f < 4 THEN addSilence(noteFinger(f, seq, k), gap)
    ELSE IF f < nFingers THEN noteFinger(f, seq, k)
    ELSE Channel(f)

noteAndGap(f, seq, k, gap) ==
    IF f < nFingers THEN addSilence(noteFinger(f, seq, k), gap) ELSE Channel(f)

\* line 324: for(f=0; f<4; f++)
offBarFingers == 4

\* lines 324-326
offBarFinger(f) ==
    IF f < offBarFingers THEN addSilence(Channel(f), tCRSamples) ELSE Channel(f)

\* lines 295 and 323: one row of the log; SampleTime is kept as its sample
\* count and ProgTime in thirds of a second
\* variant: the first two columns exchanged
logRowSwapped(c, b, pattern, samples, tt) == <<b, c, pattern, samples, tt>>

logRow(c, b, pattern, samples, tt) == <<c, b, pattern, samples, tt>>

logHeader == <<"Cycle", "Bar", "Pattern", "SampleTime", "ProgTime">>

----------------------------------------------------------------------------
(* The program *)

\* firstRun is a history variable for comparing two runs of the program:
\* the seed of the random source of the first run and, once that run is
\* over, the file it wrote
NoRun == [done |-> FALSE, seed |-> 0, wav |-> <<>>]

\* the seeds a run may start from: any, or the first run's in a second run
Seeds == IF firstRun.done THEN {firstRun.seed} ELSE 0..(RandMod - 1)

Init ==
    /\ opts \in [sampleFrequency : SampleFrequencyOpts,
                 jitter          : JitterOpts,
                 intro           : IntroOpts,
                 duration        : DurationOpts,
                 maxAmplitude    : MaxAmplitudeOpts,
                 useSideChannels : BOOLEAN,
                 sixchan         : BOOLEAN]
    /\ pc = "options"
    /\ rnd = 0
    /\ aOut = <<>>
    /\ aOutptr = <<>>
    /\ totSamples = 0
    /\ t = 0
    /\ cycle = 0
    /\ bar = 0
    /\ i = 0
    /\ n = 0
    /\ seqnum = 0
    /\ tStart = 0
    /\ fd = FALSE
    /\ fdLog = FALSE
    /\ wav = <<>>
    /\ log = <<>>
    /\ firstRun = NoRun

\* lines 53-95
ParseOptions ==
    /\ pc = "options"
    /\ pc' = IF HelpExits(opts) THEN "exit" ELSE "setup"
    /\ UNCHANGED <<opts, rnd, aOut, aOutptr, totSamples, t, cycle, bar, i, n,
                   seqnum, tStart, fd, fdLog, wav, log, firstRun>>

\* lines 112-189; the random source starts in an arbitrary state
Setup ==
    /\ pc = "setup"
    /\ IF ToneArrayOk
       THEN /\ pc' = "open"
            /\ aOut' = [f \in 0..(nArrays - 1) |-> << <<"U", ArrayLen>> >>]
            /\ aOutptr' = [f \in 0..(nArrays - 1) |-> 0]
            /\ \E s \in Seeds :
                  /\ rnd' = s
                  /\ firstRun' = [firstRun EXCEPT !.seed = s]
       ELSE /\ pc' = "crashed"
            /\ UNCHANGED <<aOut, aOutptr, rnd, firstRun>>
    /\ totSamples' = 0
    /\ UNCHANGED <<opts, t, cycle, bar, i, n, seqnum, tStart, fd, fdLog, wav, log>>

\* lines 334-336
OpenFiles ==
    /\ pc = "open"
    /\ fd' = TRUE
    /\ fdLog' = TRUE
    /\ log' = Append(log, logHeader)
    /\ pc' = "header"
    /\ UNCHANGED <<opts, rnd, aOut, aOutptr, totSamples, t, cycle, bar, i, n,
                   seqnum, tStart, wav, firstRun>>

\* lines 339-341
WriteHeader ==
    /\ pc = "header"
    /\ LET hdr == buildWaveHeader(initWavHeader)
       IN  wav' = Append(wav, [kind |-> "header", bytes |-> headerBytes(hdr),
                               hdr |-> hdr])
    /\ pc' = IF intro # 0 THEN "intro" ELSE "phrases"
    /\ UNCHANGED <<opts, rnd, aOut, aOutptr, totSamples, t, cycle, bar, i, n,
                   seqnum, tStart, fd, fdLog, log, firstRun>>

\* lines 254-268, up to the call of flush()
MakeIntro ==
    /\ pc = "intro"
    /\ aOut' = [f \in DOMAIN aOut |-> introFinger(f).a]
    /\ aOutptr' = [f \in DOMAIN aOutptr |-> introFinger(f).p]
    /\ totSamples' = totSamplesAfter(aOutptr')
    /\ pc' = "introFlush"
    /\ UNCHANGED <<opts, rnd, t, cycle, bar, i, n, seqnum, tStart, fd, fdLog,
                   wav, log, firstRun>>

\* lines 229-246, called at line 269 and at line 329
Flush ==
    /\ pc \in {"introFlush", "flush"}
    /\ LET nSamples == aOutptr[0]
       IN  wav' = Append(wav, [kind  |-> "data",
                               bytes |-> 2 * flushWritten(nSamples),
                               chan  |-> flushData(nSamples),
                               cycle |-> cycle])
    /\ aOutptr' = flushReset(aOutptr)
    /\ pc' = "phrases"
    /\ UNCHANGED <<opts, rnd, aOut, totSamples, t, cycle, bar, i, n, seqnum,
                   tStart, fd, fdLog, log, firstRun>>

\* lines 280-288
LoopCheck ==
    /\ pc = "phrases"
    /\ IF loopExit(t)
       THEN /\ pc' = "close"
            /\ UNCHANGED <<cycle, bar, tStart, i>>
       ELSE /\ cycle' = cycle + 1
            /\ bar' = 0
            /\ tStart' = totSamples
            /\ i' = 0
            /\ pc' = "on"
    /\ UNCHANGED <<opts, rnd, aOut, aOutptr, totSamples, t, n, seqnum, fd,
                   fdLog, wav, log, firstRun>>

\* lines 289-296: the start of one ON bar, or the end of the ON loop
OnBar ==
    /\ pc = "on"
    /\ IF i < nBlocksON
       THEN /\ bar' = bar + 1
            /\ seqnum' = DrawSeqnum(rnd)
            /\ rnd' = NextRnd(rnd)
            /\ log' = Append(log, logRow(cycle, bar + 1, DrawSeqnum(rnd),
                                         tStart + aOutptr[0], t))
            /\ n' = 0
            /\ pc' = "note"
            /\ i' = i
       ELSE /\ i' = 0
            /\ pc' = "off"
            /\ UNCHANGED <<bar, seqnum, rnd, log, n>>
    /\ UNCHANGED <<opts, aOut, aOutptr, totSamples, t, cycle, tStart, fd, fdLog,
                   wav, firstRun>>

\* lines 297-320: one note of the bar, and the end of the bar after the 4th
NoteSlot ==
    /\ pc = "note"
    /\ LET seq == sequences[seqnum + 1]
           gap == gapSamples(rnd)
       IN  /\ aOut' = [f \in DOMAIN aOut |-> noteAndGap(f, seq, n, gap).a]
           /\ aOutptr' = [f \in DOMAIN aOutptr |-> noteAndGap(f, seq, n, gap).p]
    /\ totSamples' = totSamplesAfter(aOutptr')
    /\ rnd' = NextRnd(rnd)
    /\ IF n + 1 < 4
       THEN /\ n' = n + 1
            /\ UNCHANGED <<t, i, pc>>
       ELSE /\ n' = n + 1
            /\ t' = t + tCR
            /\ i' = i + 1
            /\ pc' = "on"
    /\ UNCHANGED <<opts, cycle, bar, seqnum, tStart, fd, fdLog, wav, log, firstRun>>

\* lines 321-328: one OFF bar, or the end of the OFF loop
OffBar ==
    /\ pc = "off"
    /\ IF i < nBlocksOFF
       THEN /\ bar' = bar + 1
            /\ log' = Append(log, logRow(cycle, bar + 1, -1,
                                         tStart + aOutptr[0], t))
            /\ aOut' = [f \in DOMAIN aOut |-> offBarFinger(f).a]
            /\ aOutptr' = [f \in DOMAIN aOutptr |-> offBarFinger(f).p]
            /\ totSamples' = totSamplesAfter(aOutptr')
            /\ t' = t + tCR
            /\ i' = i + 1
            /\ pc' = "off"
       ELSE /\ pc' = "flush"
            /\ UNCHANGED <<bar, log, aOut, aOutptr, totSamples, t, i>>
    /\ UNCHANGED <<opts, rnd, cycle, n, seqnum, tStart, fd, fdLog, wav, firstRun>>

\* lines 350-351
Close ==
    /\ pc = "close"
    /\ fd' = FALSE
    /\ fdLog' = FALSE
    /\ pc' = "done"
    /\ UNCHANGED <<opts, rnd, aOut, aOutptr, totSamples, t, cycle, bar, i, n,
                   seqnum, tStart, wav, log, firstRun>>

Next ==
    \/ ParseOptions
    \/ Setup
    \/ OpenFiles
    \/ WriteHeader
    \/ MakeIntro
    \/ Flush
    \/ LoopCheck
    \/ OnBar
    \/ NoteSlot
    \/ OffBar
    \/ Close

Spec == Init /\ [][Next]_vars

\* the program is sequential and runs each step it reaches
FairSpec == Init /\ [][Next]_vars /\ WF_vars(Next)

\* a second run of the program, started when the first is over: the same
\* command line but for --use-side-channels, and the same random draws
Rerun ==
    /\ pc = "done"
    /\ ~firstRun.done
    /\ firstRun' = [done |-> TRUE, seed |-> firstRun.seed, wav |-> wav]
    /\ opts' = [opts EXCEPT !.useSideChannels = ~@]
    /\ pc' = "options"
    /\ rnd' = 0
    /\ aOut' = <<>>
    /\ aOutptr' = <<>>
    /\ totSamples' = 0
    /\ t' = 0
    /\ cycle' = 0
    /\ bar' = 0
    /\ i' = 0
    /\ n' = 0
    /\ seqnum' = 0
    /\ tStart' = 0
    /\ fd' = FALSE
    /\ fdLog' = FALSE
    /\ wav' = <<>>
    /\ log' = <<>>

PairNext ==
    \/ Next
    \/ Rerun

\* two runs of the program, one after the other
PairSpec == Init /\ [][PairNext]_vars

----------------------------------------------------------------------------
(* Properties *)

Channels == 0..(nFingers - 1)

FlushPoint == pc \in {"introFlush", "flush"}

DataWrites == {k \in 1..Len(wav) : wav[k].kind = "data"}

AllZero(a) == \A j \in 1..Len(a) : a[j][1] = "Z"

\* C1: in every note-slot of an ON bar, in 4- and in 6-channel mode, exactly
\* one output channel has the tone burst appended and every other channel
\* has silence of the tone's duration appended for that slot
OneToneEachSlot ==
    [][pc = "note" =>
        LET sounding == {f \in Channels :
                Slice(aOut'[f], aOutptr[f], toneLength) = << <<"T", toneLength>> >>}
            silent == {f \in Channels :
                Slice(aOut'[f], aOutptr[f], tToneSamples) = << <<"Z", tToneSamples>> >>}
        IN  /\ Cardinality(sounding) = 1
            /\ silent = Channels \ sounding]_vars

\* a 6-channel run that has completed the 4 note-slots of a bar of its
\* second phrase
OneToneEachSlotWitness ==
    sixChan /\ pc = "on" /\ n = 4 /\ cycle = 2

\* C2: at every call of flush() the write pointers of all channelCount
\* channels are equal
FlushAligned ==
    FlushPoint => \A f \in Channels : aOutptr[f] = aOutptr[0]

\* C3: in 6-channel mode every sample written to the file for channel 2
\* (centre) and channel 3 (LFE) is zero
CentreLfeSilent ==
    sixChan => \A k \in DataWrites : AllZero(wav[k].chan[2]) /\ AllZero(wav[k].chan[3])

RECURSIVE SumBytes(_)
SumBytes(w) ==
    IF w = <<>> THEN 0
    ELSE (IF w[1].kind = "data" THEN w[1].bytes ELSE 0) + SumBytes(Tail(w))

\* C4: when the run completes, the audio bytes written by all flushes equal
\* the data-chunk size declared in the header
DeclaredSizeWritten ==
    pc = "done" => SumBytes(wav) = headerField(wav[1].hdr, "Subchunk2Size")

RECURSIVE PopCount(_)
PopCount(m) == IF m = 0 THEN 0 ELSE (m % 2) + PopCount(m \div 2)

\* C6: the channel mask in the header is 0x33 (4 channels, back), 0x603
\* (4 channels, side), 0x3F (6 channels, back) or 0x60F (6 channels, side),
\* and the number of its set bits equals the channel count
ChannelMaskValue ==
    \A k \in 1..Len(wav) :
        wav[k].kind = "header" =>
            LET mask == headerField(wav[k].hdr, "ChannelMask")
            IN  /\ mask = (IF useSideChannels THEN 1539 ELSE 51)
                          + (IF sixChan THEN 12 ELSE 0)
                /\ PopCount(mask) = headerField(wav[k].hdr, "NumChannels")
                /\ PopCount(mask) = (IF sixChan THEN 6 ELSE 4)

ChannelMaskValueWitness ==
    /\ Len(wav) >= 1
    /\ useSideChannels
    /\ sixChan
    /\ headerField(wav[1].hdr, "ChannelMask") = 1551

\* C7: a flush appends one block to the file in which sample i of channel f
\* lies at byte offset 2*(i*channelCount + f), for every sample of every
\* channel timeline
SamplesInOrder ==
    [][FlushPoint =>
        /\ Len(wav') = Len(wav) + 1
        /\ SubSeq(wav', 1, Len(wav)) = wav
        /\ \A f \in Channels :
              /\ aOutptr[f] > 0 =>
                    2 * ((aOutptr[f] - 1) * nFingers + f) + 2 <= wav'[Len(wav')].bytes
              /\ TakeS(wav'[Len(wav')].chan[f], aOutptr[f]) =
                    Coalesce(toInt16(ReadS(aOut[f], aOutptr[f])))]_vars

InBounds(x, lo, hi) == ~x.nan /\ lo <= x.v /\ x.v <= hi

DocumentedOptions ==
    /\ InBounds(opts.sampleFrequency, 1000, 44100)
    /\ InBounds(opts.jitter, 0, 235)
    /\ InBounds(opts.intro, 0, 30)
    /\ InBounds(opts.duration, 1, 14400)
    /\ InBounds(opts.maxAmplitude, 1, 32767)

\* C8: when an option is not a number or lies outside its documented bound,
\* neither file is ever opened and nothing is written
NoOutputOnBadOption ==
    ~DocumentedOptions => ~fd /\ ~fdLog /\ wav = <<>> /\ log = <<>>

NoOutputOnBadOptionWitness ==
    /\ pc = "exit"
    /\ opts.intro = Num(31)
    /\ InBounds(opts.sampleFrequency, 1000, 44100)
    /\ InBounds(opts.jitter, 0, 235)
    /\ InBounds(opts.duration, 1, 14400)
    /\ InBounds(opts.maxAmplitude, 1, 32767)

\* C9: the log holds nBlocksON + nBlocksOFF rows per phrase, in order: the
\* cycle is the 1-based phrase index, the bars run from 1 up, the pattern is
\* in 0..23 on the ON rows and -1 on the OFF rows
LogRowsPerPhrase ==
    LET perPhrase == nBlocksON + nBlocksOFF
    IN  /\ \A k \in 2..Len(log) :
              /\ log[k][1] = ((k - 2) \div perPhrase) + 1
              /\ log[k][2] = ((k - 2) % perPhrase) + 1
              /\ IF log[k][2] <= nBlocksON
                    THEN log[k][3] \in 0..23
                    ELSE log[k][3] = -1
        /\ pc \in {"flush", "phrases", "close", "done"} /\ Len(log) > 0
              => Len(log) = 1 + perPhrase * cycle

LogRowsPerPhraseWitness ==
    pc = "flush" /\ cycle = 2 /\ Len(log) = 1 + 2 * (nBlocksON + nBlocksOFF)

\* C10: makePhrases terminates; on exit t has grown by nBlocksON+nBlocksOFF
\* CR periods per phrase, exceeds targetDuration for the first time at a
\* phrase boundary, and flush() has run once per phrase
MakePhrasesTerminates ==
    /\ (pc = "phrases") ~> (pc = "close")
    /\ [](pc = "close" =>
            /\ t = cycle * (nBlocksON + nBlocksOFF) * tCR
            /\ t > 3 * targetDuration
            /\ t - (nBlocksON + nBlocksOFF) * tCR <= 3 * targetDuration
            /\ Cardinality(DataWrites) = cycle + (IF intro # 0 THEN 1 ELSE 0))

MakePhrasesTerminatesWitness ==
    pc = "close" /\ cycle = 2 /\ intro = 0

\* C11: the number of phrases makePhrases has generated when it exits
\* equals nPhrases, the phrase count the header was computed from
PhrasesAsDeclared ==
    pc = "close" => cycle = nPhrases

\* C12: every OFF bar appends exactly one CR period of zero samples to each
\* of the channelCount channels
OffBarAllChannels ==
    [][pc = "off" /\ i < nBlocksOFF =>
        \A f \in Channels :
            /\ aOutptr'[f] = aOutptr[f] + tCRSamples
            /\ Slice(aOut'[f], aOutptr[f], tCRSamples) = << <<"Z", tCRSamples>> >>]_vars

\* C13: in the block a phrase flush writes, the frames of the OFF bars (the
\* last nBlocksOFF CR periods of the phrase) are zero on every channel
OffBarFramesZero ==
    [][pc = "flush" =>
        \A f \in Channels :
            AllZero(DropS(wav'[Len(wav')].chan[f],
                          aOutptr[0] - nBlocksOFF * tCRSamples))]_vars

\* C14: a note-slot of an ON bar draws one jitter value and appends, after
\* the note, the same number of zero samples to every channel, so that all
\* channelCount write pointers are equal once the slot is complete
NoteSlotKeepsAligned ==
    [][pc = "note" =>
        LET g == aOutptr'[0] - aOutptr[0] - tToneSamples
        IN  /\ rnd' = NextRnd(rnd)
            /\ g > 0
            /\ \A f \in Channels :
                  /\ aOutptr'[f] = aOutptr[f] + tToneSamples + g
                  /\ Slice(aOut'[f], aOutptr[f] + tToneSamples, g) = << <<"Z", g>> >>
                  /\ aOutptr'[f] = aOutptr'[0]]_vars

\* a 6-channel run with the largest jitter, inside the second ON bar of its
\* second phrase with some note-slots complete
NoteSlotKeepsAlignedWitness ==
    sixChan /\ jitterPct = 235 /\ pc = "note" /\ n >= 2 /\ i = 1 /\ cycle = 2

FingerChannels == {f \in Channels : ~(sixChan /\ f \in {2, 3})}

ToneRuns(a) == {j \in 1..Len(a) : a[j][1] = "T"}

\* the samples the ON bar just completed has appended to channel f: the bar
\* began at the sample time of the last log row
LastBar(f) ==
    LET barStart == log[Len(log)][4] - tStart
    IN  Slice(aOut[f], barStart, aOutptr[f] - barStart)

\* C15: when an ON bar is complete, each of the four finger channels
\* (0,1,2,3 with 4 channels; 0,1,4,5 with 6) holds the tone burst in exactly
\* one of the bar's 4 note-slots
EachFingerOncePerBar ==
    pc = "on" /\ i >= 1 =>
        \A f \in FingerChannels :
            /\ Cardinality(ToneRuns(LastBar(f))) = 1
            /\ \A j \in ToneRuns(LastBar(f)) : LastBar(f)[j][2] = toneLength

\* a 6-channel run that has completed the third ON bar of its second phrase
EachFingerOncePerBarWitness ==
    sixChan /\ pc = "on" /\ i = 3 /\ cycle = 2 /\ Len(LastBar(5)) = 3

\* C16: every flush writes aOutptr[0] * channelCount * 2 bytes, which fit
\* the output buffer, so that no frame is dropped
FlushWritesEveryFrame ==
    [][FlushPoint =>
        /\ wav'[Len(wav')].bytes = aOutptr[0] * nFingers * 2
        /\ wav'[Len(wav')].bytes <= OutbufBytes]_vars

\* C17: a flush entered with channel timelines of different lengths ends
\* the run and writes nothing to the file
MisalignedFlushAborts ==
    [][FlushPoint /\ (\E f \in Channels : aOutptr[f] # aOutptr[0]) =>
        wav' = wav /\ pc' = "crashed"]_vars

\* the most samples one phrase appends to a channel: 4 notes and gaps in
\* each ON bar with every jitter at its maximum, and the OFF bars
PhraseWorth ==
    4 * nBlocksON * (tToneSamples + gapSamples(RandMod)) + nBlocksOFF * tCRSamples

\* C18: no channel timeline ever holds more than one phrase's worth of
\* samples, the intro included, and a flush leaves every channel's write
\* pointer at 0
TimelineWithinPhrase ==
    [][/\ \A f \in Channels \cap DOMAIN aOutptr' : aOutptr'[f] <= PhraseWorth
       /\ FlushPoint => \A f \in Channels : aOutptr'[f] = 0]_vars

headerIndex(h, name) == CHOOSE k \in 1..Len(h) : h[k][1] = name

\* C20: the extensible header is 68 bytes long, its fmt subchunk size field
\* is 40 and equals the bytes written for that subchunk, and its RIFF
\* ChunkSize equals the bytes that follow the field, 60 + dataSize
HeaderSizesConsistent ==
    \A k \in 1..Len(wav) :
        wav[k].kind = "header" =>
            LET h == wav[k].hdr
            IN  /\ wav[k].bytes = 68
                /\ headerBytes(h) = 68
                /\ headerField(h, "Subchunk1Size") = 40
                /\ headerBytes(SubSeq(h, headerIndex(h, "Subchunk1Size") + 1,
                                         headerIndex(h, "data") - 1)) = 40
                /\ headerField(h, "ChunkSize") =
                       headerBytes(SubSeq(h, headerIndex(h, "ChunkSize") + 1, Len(h)))
                       + headerField(h, "Subchunk2Size")
                /\ headerField(h, "ChunkSize") = 60 + headerField(h, "Subchunk2Size")

\* the fields of a header other than the channel mask
MaskedHeader(h) == [j \in 1..Len(h) |-> IF h[j][1] = "ChannelMask" THEN <<>> ELSE h[j]]

\* two blocks of a file are the same, but for the channel mask of a header
SameButMask(a, b) ==
    IF a.kind = "header" /\ b.kind = "header"
    THEN a.bytes = b.bytes /\ MaskedHeader(a.hdr) = MaskedHeader(b.hdr)
    ELSE a = b

\* C19: a second run with the same configuration and the same random draws
\* as the first but the other value of useSideChannels writes the same
\* audio data blocks, and a header that differs from the first run's in the
\* channel mask only
SideFlagChangesMaskOnly ==
    firstRun.done =>
        /\ Len(wav) <= Len(firstRun.wav)
        /\ \A k \in 1..Len(wav) : SameButMask(wav[k], firstRun.wav[k])
        /\ pc = "done" => Len(wav) = Len(firstRun.wav)

\* a second 6-channel run with jitter and intro is over, two phrases written,
\* and the two headers differ
SideFlagChangesMaskOnlyWitness ==
    /\ firstRun.done
    /\ pc = "done"
    /\ sixChan
    /\ jitterPct = 235
    /\ intro = 30
    /\ Len(wav) = 4
    /\ wav[1] # firstRun.wav[1]

====
